---------------------------- MODULE Spec2Model ----------------------------
(***************************************************************************)
(* BetterResume: the POST /analyze request handler (main.py), the three    *)
(* Gemini prompt functions (utils/gemini_api.py) and the ATS scorer        *)
(* (utils/simple_ats.py).                                                  *)
(*                                                                         *)
(* Text is a sequence of lexical tokens.  A token is a run of characters   *)
(* that the program's regular expressions treat as a unit: the literals    *)
(* they search for ("Score:", "Note:", "/100", ...), single digits, the    *)
(* dot, a blank, a newline, and "x" for any other character.  Every token  *)
(* sequence spells a Python string and the operators below compute on it   *)
(* what re.search / re.split / str.strip / float / int compute on that     *)
(* string.                                                                 *)
(***************************************************************************)
EXTENDS Integers, Sequences, FiniteSets, TLC

\* ------------------------------------------------------------------ bounds
\* longest resume transcript / job description, in tokens
MaxTextLen == 2
\* longest raw wellness-score response, in tokens
MaxLen == 4
\* longest raw ATS response, in tokens
MaxAtsLen == 4

\* ------------------------------------------------------- text primitives
RECURSIVE SeqsUpTo(_, _)
SeqsUpTo(A, n) ==
    IF n = 0 THEN {<<>>}
    ELSE LET shorter == SeqsUpTo(A, n - 1)
         IN  shorter \cup {Append(s, a) : s \in {t \in shorter : Len(t) = n - 1}, a \in A}

\* the characters Python's \s and str.strip() treat as whitespace
IsSpace(t) == t \in {" ", "\n"}

Digits == {"7", "8"}

DigitVal(d) == IF d = "7" THEN 7 ELSE 8

\* the character class [0-9.]
IsNumChar(t) == t \in Digits \cup {"."}

\* the character class \d
IsDigit(t) == t \in Digits

Min(S) == CHOOSE m \in S : \A n \in S : m <= n

\* s[i..] , the empty string when i is past the end
From(s, i) == SubSeq(s, i, Len(s))

\* first index >= i that does not hold whitespace (Len(s)+1 if none): greedy \s*
SkipSpace(s, i) ==
    Min({j \in i..(Len(s) + 1) : j = Len(s) + 1 \/ ~IsSpace(s[j])})

\* first index >= i that does not hold a [0-9.] character: greedy [0-9.]+
NumRunEnd(s, i) ==
    Min({j \in i..(Len(s) + 1) : j = Len(s) + 1 \/ ~IsNumChar(s[j])})

\* first index >= i that does not hold a digit: greedy \d+
DigitRunEnd(s, i) ==
    Min({j \in i..(Len(s) + 1) : j = Len(s) + 1 \/ ~IsDigit(s[j])})

\* str.strip()
strip(s) ==
    LET keep == {i \in 1..Len(s) : ~IsSpace(s[i])}
    IN  IF keep = {} THEN <<>>
        ELSE SubSeq(s, Min(keep), CHOOSE m \in keep : \A n \in keep : n <= m)

\* "needle in s" for a one-token needle
Contains(s, t) == \E i \in 1..Len(s) : s[i] = t

\* "\n".join(parts)
RECURSIVE join(_)
join(parts) ==
    IF Len(parts) = 0 THEN <<>>
    ELSE IF Len(parts) = 1 THEN parts[1]
    ELSE parts[1] \o <<"\n">> \o join(Tail(parts))

\* str.lower() on a token (re.IGNORECASE compares case-folded text)
lower(t) ==
    IF t = "ATS Score:" THEN "ats score:"
    ELSE IF t = "Analysis:" THEN "analysis:"
    ELSE t

\* value of a run of decimal digits
RECURSIVE DigitsValue(_)
DigitsValue(ds) ==
    IF Len(ds) = 0 THEN 0
    ELSE 10 * DigitsValue(SubSeq(ds, 1, Len(ds) - 1)) + DigitVal(ds[Len(ds)])

RECURSIVE Pow10(_)
Pow10(n) == IF n = 0 THEN 1 ELSE 10 * Pow10(n - 1)

\* A decimal number is the exact fraction num/den, den a power of ten.
Zero == [num |-> 0, den |-> 1]

\* float(text) for text matched by [0-9.]+ : a ValueError unless the text has
\* at most one dot and at least one digit ("7", "7.", ".7", "7.7")
FloatRaises(cs) ==
    \/ Cardinality({i \in 1..Len(cs) : cs[i] = "."}) > 1
    \/ ~\E i \in 1..Len(cs) : IsDigit(cs[i])

float(cs) ==
    LET dots == {i \in 1..Len(cs) : cs[i] = "."}
        frac == IF dots = {} THEN 0 ELSE Len(cs) - Min(dots)
    IN  [num |-> DigitsValue(SelectSeq(cs, IsDigit)), den |-> Pow10(frac)]

\* int(text) for text matched by \d+
int(cs) == DigitsValue(cs)

\* x * 10
TimesTen(x) == [num |-> x.num * 10, den |-> x.den]

\* lo <= x <= hi for integers lo, hi
InRange(x, lo, hi) == lo * x.den <= x.num /\ x.num <= hi * x.den

\* x = y as numbers
NumEq(x, y) == x.num * y.den = y.num * x.den


\* ------------------------------------------------- regular expressions
\* A match result is <<>> (None) or <<group 1>>.

\* re.search(r"Score:\s*([0-9.]+)", s)                        main.py:80
ScoreSearch(s) ==
    LET hits == {i \in 1..Len(s) :
                    /\ s[i] = "Score:"
                    /\ SkipSpace(s, i + 1) <= Len(s)
                    /\ IsNumChar(s[SkipSpace(s, i + 1)])}
    IN  IF hits = {} THEN <<>>
        ELSE LET j == SkipSpace(s, Min(hits) + 1)
             IN  <<SubSeq(s, j, NumRunEnd(s, j) - 1)>>

\* where the lazy (.*?) started at j stops: at the first "\nNote:", else at
\* the end of the text ($ also matches before a final newline)
ExplanationEnd(s, j) ==
    Min({k \in j..(Len(s) + 1) :
            \/ k = Len(s) + 1
            \/ k = Len(s) /\ s[k] = "\n"
            \/ k < Len(s) /\ s[k] = "\n" /\ s[k + 1] = "Note:"})

\* re.search(r"Explanation:\s*(.*?)(?:\nNote:|$)", s, re.DOTALL)  main.py:85
ExplanationSearch(s) ==
    LET hits == {i \in 1..Len(s) : s[i] = "Explanation:"}
    IN  IF hits = {} THEN <<>>
        ELSE LET j == SkipSpace(s, Min(hits) + 1)
             IN  <<SubSeq(s, j, ExplanationEnd(s, j) - 1)>>

\* re.search(r"Note:\s*(.*)", s, re.DOTALL)                   main.py:90
NoteSearch(s) ==
    LET hits == {i \in 1..Len(s) : s[i] = "Note:"}
    IN  IF hits = {} THEN <<>>
        ELSE <<From(s, SkipSpace(s, Min(hits) + 1))>>

\* re.search(r"ATS Score:\s*(\d+)/100", s, re.IGNORECASE)     simple_ats.py:67
AtsScoreSearch(s) ==
    LET hits == {i \in 1..Len(s) :
                    /\ lower(s[i]) = "ats score:"
                    /\ LET j == SkipSpace(s, i + 1)
                           k == DigitRunEnd(s, j)
                       IN  k > j /\ k <= Len(s) /\ s[k] = "/100"}
    IN  IF hits = {} THEN <<>>
        ELSE LET j == SkipSpace(s, Min(hits) + 1)
             IN  <<SubSeq(s, j, DigitRunEnd(s, j) - 1)>>

\* start of the first "**Analysis:**" (any case) at or after i, Len(s)+1 if none
AnalysisMarker(s, i) ==
    Min({k \in i..(Len(s) + 1) :
            \/ k = Len(s) + 1
            \/ /\ k + 2 <= Len(s)
               /\ s[k] = "**"
               /\ lower(s[k + 1]) = "analysis:"
               /\ s[k + 2] = "**"})

\* a split at the word "analysis:" alone, without the surrounding **
RECURSIVE AnalysisSplitPlain(_)
AnalysisSplitPlain(s) ==
    LET hits == {k \in 1..Len(s) : lower(s[k]) = "analysis:"}
    IN  IF hits = {} THEN <<s>>
        ELSE <<SubSeq(s, 1, Min(hits) - 1)>> \o AnalysisSplitPlain(From(s, Min(hits) + 1))

\* re.split(r"\*\*Analysis:\*\*", s, flags=re.IGNORECASE)     simple_ats.py:71
RECURSIVE AnalysisSplit(_)
AnalysisSplit(s) ==
    LET m == AnalysisMarker(s, 1)
    IN  IF m > Len(s) THEN <<s>>
        ELSE <<SubSeq(s, 1, m - 1)>> \o AnalysisSplit(From(s, m + 3))


\* markdown.markdown(text): blank text renders as the empty string, any
\* other text as a block of HTML around the stripped source
markdown(s) ==
    IF strip(s) = <<>> THEN <<>> ELSE <<"<p>">> \o strip(s) \o <<"</p>">>

\* ------------------------------------------------- module configuration
\* os.getenv("GOOGLE_API_KEY"): unset, empty, or a key
EnvKeys == {"unset", "", "key"}

\* gemini_api.py:9-18 and simple_ats.py:10-18: one key is read and one
\* model handle is built from it; a missing or empty key leaves model = None
configure(key) == IF key \in {"unset", ""} THEN "None" ELSE "GenerativeModel"

\* What model.generate_content_async(prompt) / response.text does for one
\* call: returns text, or raises an exception whose message is text.
ExcMsgs == {<<"429 quota exceeded">>, <<"503 unavailable">>}

Raised(e) == [raises |-> TRUE, text |-> e]

Returned(t) == [raises |-> FALSE, text |-> t]

\* -------------------------------------------------------- AI functions
NotConfigured ==
    <<"Error:", " Gemini model is not configured. Please check your API key.">>

\* get_summary reporting a failed call in the "Error:" form
get_summary_error_form(m, o) ==
    IF m = "None" THEN NotConfigured
    ELSE IF o.raises THEN <<"Error:", " ">> \o o.text
    ELSE o.text

\* gemini_api.py:22-47; o is the outcome of the provider call it awaits
get_summary(m, o) ==
    IF m = "None" THEN NotConfigured
    ELSE IF o.raises THEN <<"An error occurred while generating the summary: ">> \o o.text
    ELSE o.text

\* gemini_api.py:49-78
get_analysis(m, o) ==
    IF m = "None" THEN NotConfigured
    ELSE IF o.raises THEN <<"An error occurred while generating the analysis: ">> \o o.text
    ELSE o.text

\* gemini_api.py:80-111
get_wellness_score(m, o) ==
    IF m = "None" THEN NotConfigured
    ELSE IF o.raises
         THEN <<"An error occurred while generating the wellness score: ">> \o o.text
    ELSE o.text

\* simple_ats.py:65-74: the parse of an obtained response text
parse_ats(response_text) ==
    LET score_match    == AtsScoreSearch(response_text)
        analysis_parts == AnalysisSplit(response_text)
    IN  [score    |-> IF score_match # <<>> THEN int(score_match[1]) ELSE 0,
         analysis |-> IF Len(analysis_parts) > 1 THEN strip(analysis_parts[2])
                      ELSE <<"Could not parse analysis.">>]

\* calculate_ats_score testing the response text for error markers first
calculate_ats_score_checked(m, o) ==
    IF m = "None"
    THEN [score |-> 0, analysis |-> <<"Error:", " Gemini model is not configured.">>]
    ELSE IF o.raises
         THEN [score |-> 0,
               analysis |-> <<"An error occurred during ATS analysis: ">> \o o.text]
    ELSE IF Contains(o.text, "Error:") \/ Contains(o.text, "All available API keys")
         THEN [score |-> 0, analysis |-> o.text]
    ELSE parse_ats(o.text)

\* simple_ats.py:20-77
calculate_ats_score(m, o) ==
    IF m = "None"
    THEN [score |-> 0, analysis |-> <<"Error:", " Gemini model is not configured.">>]
    ELSE IF o.raises
         THEN [score |-> 0,
               analysis |-> <<"An error occurred during ATS analysis: ">> \o o.text]
    ELSE parse_ats(o.text)

\* Number of provider calls one AI function makes for one prompt: none
\* without a model, otherwise exactly one (no retry, no second key).
provider_calls(m) == IF m = "None" THEN 0 ELSE 1

\* The parameters each function declares (none has a default or **kwargs).
Params(f) ==
    CASE f = "get_summary"         -> {"resume_text"}
      [] f = "get_analysis"        -> {"resume_text"}
      [] f = "get_wellness_score"  -> {"analysis_text"}
      [] f = "calculate_ats_score" -> {"resume_text", "job_description"}

\* Python binds a call's arguments to the callee's parameters before the body
\* runs; an argument the callee does not declare is a TypeError.
Binds(f, args) == args = Params(f)


\* ---------------------------------------------------------------- state
VARIABLES
    api_key,                    \* GOOGLE_API_KEY in the environment
    model,                      \* gemini_api.model
    ats_model,                  \* simple_ats.model
    pc,                         \* where the request handler stands
    content_type,               \* resume.content_type
    upload_text,                \* the text the uploaded document holds
    job_description,            \* the job_description form field
    resume_text,
    summary,
    detailed_analysis,
    wellness_score_raw,
    wellness_score_value,
    explanation_parts,
    wellness_score_explanation,
    wellness_score_percent,
    detailed_analysis_html,
    jd_provided,
    ats_score,
    ats_analysis_html,
    ats_result,                 \* what calculate_ats_score returned
    response_text,              \* the response text calculate_ats_score obtained
    response,                   \* the template rendered, or "exception"
    error,                      \* the error shown, or the exception raised
    calls,                      \* AI functions entered by this request, in order
    attempts,                   \* provider calls made for the latest prompt
    provider,                   \* outcome of the latest provider call
    ats_reply                   \* what the provider does with the ATS prompt

config == <<api_key, model, ats_model>>

upload == <<content_type, upload_text, job_description, ats_reply>>

wellness ==
    <<wellness_score_value, explanation_parts, wellness_score_explanation,
      wellness_score_percent, detailed_analysis_html>>

ats == <<jd_provided, ats_score, ats_analysis_html, ats_result, response_text>>

texts == <<resume_text, summary, detailed_analysis, wellness_score_raw>>

outcome == <<response, error>>

trace == <<calls, attempts, provider>>

vars == <<config, pc, upload, texts, wellness, ats, outcome, trace>>

\* ---------------------------------------------------------------- inputs
\* resume transcripts and job descriptions: blank, whitespace-only, or text
Texts == SeqsUpTo({" ", "x"}, MaxTextLen)

ContentTypes == {"application/pdf", "image/png"}

\* texts the model may return for the summary and analysis prompts
Replies == {<<"x">>, <<"x", "\n", "x">>}

Outcomes == {Returned(t) : t \in Replies} \cup {Raised(e) : e \in ExcMsgs}

NoCall == Returned(<<>>)

\* a reply in the format the ATS prompt asks for
WellFormedAts ==
    Returned(<<"ATS Score:", " ", "7", "8", "/100", "\n", "**", "Analysis:", "**",
               "\n", "x">>)

\* a reply in that format whose number is not a percentage
OverRangeAts ==
    Returned(<<"ATS Score:", " ", "8", "8", "8", "/100", "\n", "**", "Analysis:",
               "**", "\n", "x">>)

\* utils/extract_text.py is not part of the sources: the transcript of an
\* upload is the text the document holds, empty for an image-only PDF
extract_text_from_pdf(doc) == doc

\* -------------------------------------------------------- the handler
\* the locals of analyze_resume before any of them is assigned
Fresh ==
    /\ resume_text = <<>>
    /\ summary = <<>>
    /\ detailed_analysis = <<>>
    /\ wellness_score_raw = <<>>
    /\ wellness_score_value = Zero
    /\ explanation_parts = <<>>
    /\ wellness_score_explanation = <<>>
    /\ wellness_score_percent = Zero
    /\ detailed_analysis_html = <<>>
    /\ jd_provided = FALSE
    /\ ats_score = 0
    /\ ats_analysis_html = <<>>
    /\ ats_result = [score |-> 0, analysis |-> <<>>]
    /\ response_text = <<>>
    /\ calls = <<>>
    /\ attempts = 0
    /\ provider = NoCall

\* a new request starts with its locals unassigned
Reset ==
    /\ resume_text' = <<>>
    /\ summary' = <<>>
    /\ detailed_analysis' = <<>>
    /\ wellness_score_raw' = <<>>
    /\ wellness_score_value' = Zero
    /\ explanation_parts' = <<>>
    /\ wellness_score_explanation' = <<>>
    /\ wellness_score_percent' = Zero
    /\ detailed_analysis_html' = <<>>
    /\ jd_provided' = FALSE
    /\ ats_score' = 0
    /\ ats_analysis_html' = <<>>
    /\ ats_result' = [score |-> 0, analysis |-> <<>>]
    /\ response_text' = <<>>
    /\ calls' = <<>>
    /\ attempts' = 0
    /\ provider' = NoCall

Configured ==
    /\ api_key \in EnvKeys
    /\ model = configure(api_key)
    /\ ats_model = configure(api_key)

Init ==
    /\ Configured
    /\ pc = "idle"
    /\ content_type = "application/pdf"
    /\ upload_text = <<>>
    /\ job_description = <<>>
    /\ ats_reply = NoCall
    /\ response = "none"
    /\ error = ""
    /\ Fresh

\* main.py:48
IsPdf(ct) == ct = "application/pdf"

\* the emptiness test of main.py:53 without its strip()
NoUsableTextUnstripped(t) == t = <<>>

\* main.py:53   not resume_text.strip()
NoUsableText(t) == strip(t) = <<>>

\* main.py:106  bool(job_description and job_description.strip())
JdProvided(jd) == jd # <<>> /\ strip(jd) # <<>>

\* return templates.TemplateResponse(template, {..., "error": msg})
Respond(template, msg) ==
    /\ response' = template
    /\ error' = msg
    /\ pc' = "done"

\* an exception leaves analyze_resume: nothing in main.py catches it
Raise(exc) == Respond("exception", exc)

\* main.py:31-36   GET /
ReadRoot ==
    /\ pc \in {"idle", "done"}
    /\ pc' = "idle"
    /\ response' = "upload.html"
    /\ error' = ""
    /\ content_type' = "application/pdf"
    /\ upload_text' = <<>>
    /\ job_description' = <<>>
    /\ ats_reply' = NoCall
    /\ Reset
    /\ UNCHANGED config

\* main.py:40-41   POST /analyze arrives
PostAnalyze ==
    /\ pc \in {"idle", "done"}
    /\ \E ct \in ContentTypes, doc \in Texts, jd \in Texts,
          o \in {WellFormedAts, OverRangeAts} :
          /\ content_type' = ct
          /\ upload_text' = doc
          /\ job_description' = jd
          /\ ats_reply' = o
    /\ pc' = "validate"
    /\ response' = "none"
    /\ error' = ""
    /\ Reset
    /\ UNCHANGED config

\* main.py:47-49
ValidateFileType ==
    /\ pc = "validate"
    /\ IF ~IsPdf(content_type)
       THEN Respond("upload.html", "Invalid file type. Please upload a PDF.")
       ELSE pc' = "extract" /\ UNCHANGED outcome
    /\ UNCHANGED <<config, upload, texts, wellness, ats, trace>>

\* main.py:51-55
ExtractText ==
    /\ pc = "extract"
    /\ resume_text' = extract_text_from_pdf(upload_text)
    /\ IF NoUsableText(resume_text')
       THEN Respond("upload.html", "Could not find any text to analyze. Please ensure your PDF is text-based and not an image or a scan.")
       ELSE pc' = "summary" /\ UNCHANGED outcome
    /\ UNCHANGED <<config, upload, summary, detailed_analysis, wellness_score_raw,
                   wellness, ats, trace>>

\* one AI function is entered and awaited: it makes provider_calls(m) calls
Invoke(f, m, o) ==
    /\ calls' = Append(calls, f)
    /\ attempts' = provider_calls(m)
    /\ provider' = IF provider_calls(m) = 0 THEN NoCall ELSE o

\* main.py:57-61   summary = await get_summary(resume_text)
AwaitGetSummary ==
    /\ pc = "summary"
    /\ IF Binds("get_summary", {"resume_text"})
       THEN \E o \in Outcomes :
               /\ Invoke("get_summary", model, o)
               /\ summary' = get_summary(model, o)
               /\ pc' = "analysis"
               /\ UNCHANGED outcome
       ELSE Raise("TypeError") /\ UNCHANGED <<summary, trace>>
    /\ UNCHANGED <<config, upload, resume_text, detailed_analysis, wellness_score_raw,
                   wellness, ats>>

\* main.py:63-67   get_analysis(resume_text=..., current_date=...)
AwaitGetAnalysis ==
    /\ pc = "analysis"
    /\ IF Binds("get_analysis", {"resume_text", "current_date"})
       THEN \E o \in Outcomes :
               /\ Invoke("get_analysis", model, o)
               /\ detailed_analysis' = get_analysis(model, o)
               /\ pc' = "wellness"
               /\ UNCHANGED outcome
       ELSE Raise("TypeError") /\ UNCHANGED <<detailed_analysis, trace>>
    /\ UNCHANGED <<config, upload, resume_text, summary, wellness_score_raw,
                   wellness, ats>>


\* main.py:69-73   get_wellness_score(analysis_text=..., current_date=...)
AwaitGetWellnessScore ==
    /\ pc = "wellness"
    /\ IF Binds("get_wellness_score", {"analysis_text", "current_date"})
       THEN \E o \in Outcomes :
               /\ Invoke("get_wellness_score", model, o)
               /\ wellness_score_raw' = get_wellness_score(model, o)
               /\ pc' = "parse"
               /\ UNCHANGED outcome
       ELSE Raise("TypeError") /\ UNCHANGED <<wellness_score_raw, trace>>
    /\ UNCHANGED <<config, upload, resume_text, summary, detailed_analysis,
                   wellness, ats>>

\* main.py:75-98: the wellness score and its explanation, from the raw text.
\* float() is not guarded: its ValueError leaves the handler.
parse_wellness_score(raw) ==
    LET score_match       == ScoreSearch(raw)
        explanation_match == ExplanationSearch(raw)
        note_match        == NoteSearch(raw)
        value == IF score_match # <<>> THEN float(score_match[1]) ELSE Zero
        parts == (IF explanation_match # <<>>
                  THEN <<strip(explanation_match[1])>> ELSE <<>>)
                 \o (IF note_match # <<>>
                     THEN <<<<"Note:", " ">> \o strip(note_match[1])>> ELSE <<>>)
    IN  [raises      |-> score_match # <<>> /\ FloatRaises(score_match[1]),
         value       |-> value,
         parts       |-> parts,
         explanation |-> IF parts # <<>> THEN join(parts)
                         ELSE <<"Could not parse score.">>,
         percent     |-> TimesTen(value)]

\* main.py:75-101
ParseWellnessScore ==
    /\ pc = "parse"
    /\ LET r == parse_wellness_score(wellness_score_raw)
       IN  IF r.raises
           THEN Raise("ValueError") /\ UNCHANGED wellness
           ELSE /\ wellness_score_value' = r.value
                /\ explanation_parts' = r.parts
                /\ wellness_score_explanation' = r.explanation
                /\ wellness_score_percent' = r.percent
                /\ detailed_analysis_html' = markdown(detailed_analysis)
                /\ pc' = "ats"
                /\ UNCHANGED outcome
    /\ UNCHANGED <<config, upload, texts, ats, trace>>

\* ats_result = await calculate_ats_score(resume_text, job_description)
AwaitCalculateAtsScore ==
    /\ Invoke("calculate_ats_score", ats_model, ats_reply)
    /\ response_text' = IF ats_model = "None" \/ ats_reply.raises
                        THEN <<>> ELSE ats_reply.text
    /\ ats_result' = calculate_ats_score(ats_model, ats_reply)

\* main.py:103-111
HandleATS ==
    /\ pc = "ats"
    /\ jd_provided' = JdProvided(job_description)
    /\ IF jd_provided'
       THEN IF Binds("calculate_ats_score", {"resume_text", "job_description"})
            THEN /\ AwaitCalculateAtsScore
                 /\ ats_score' = ats_result'.score
                 /\ ats_analysis_html' = markdown(ats_result'.analysis)
                 /\ pc' = "render"
                 /\ UNCHANGED outcome
            ELSE /\ Raise("TypeError")
                 /\ UNCHANGED <<ats_score, ats_analysis_html, ats_result,
                                response_text, trace>>
       ELSE /\ ats_score' = 0
            /\ ats_analysis_html' = <<>>
            /\ pc' = "render"
            /\ UNCHANGED <<ats_result, response_text, outcome, trace>>
    /\ UNCHANGED <<config, upload, texts, wellness>>

\* main.py:113-127
RenderResult ==
    /\ pc = "render"
    /\ Respond("result.html", "")
    /\ UNCHANGED <<config, upload, texts, wellness, ats, trace>>

\* ------------------------------------------------------ specifications
\* The service: GET /, and POST /analyze as far as control gets.  The call at
\* main.py:64 never binds, so no request gets past it (pc = "wellness" and
\* the steps after it are not reachable) and Next is the whole of Handler.
Next ==
    \/ ReadRoot
    \/ PostAnalyze
    \/ ValidateFileType
    \/ ExtractText
    \/ AwaitGetSummary
    \/ AwaitGetAnalysis

Spec == Init /\ [][Next]_vars

\* every step of the service
Handler ==
    \/ Next
    \/ AwaitGetWellnessScore
    \/ ParseWellnessScore
    \/ HandleATS
    \/ RenderResult

\* main.py:75-127 taken by itself, as a function of the raw wellness text,
\* the job description and the provider's reply to the ATS prompt.
WellnessAlphabet == {"Score:", "Explanation:", "Note:", " ", "\n", "7", ".", "x"}

WellnessOutcomes ==
    {Returned(t) : t \in SeqsUpTo(WellnessAlphabet, MaxLen)}
        \cup {Raised(e) : e \in ExcMsgs}

\* the handler's locals on reaching main.py:75
InitParse ==
    /\ Configured
    /\ pc = "parse"
    /\ content_type = "application/pdf"
    /\ upload_text = <<"x">>
    /\ job_description \in {<<>>, <<" ">>, <<"x">>}
    /\ ats_reply \in {WellFormedAts, OverRangeAts}
    /\ resume_text = <<"x">>
    /\ summary = get_summary(model, Returned(<<"x">>))
    /\ detailed_analysis = get_analysis(model, Returned(<<"x">>))
    /\ calls = <<"get_summary", "get_analysis", "get_wellness_score">>
    /\ attempts = provider_calls(model)
    /\ provider \in (IF model = "None" THEN {NoCall} ELSE WellnessOutcomes)
    /\ wellness_score_raw = get_wellness_score(model, provider)
    /\ wellness_score_value = Zero
    /\ explanation_parts = <<>>
    /\ wellness_score_explanation = <<>>
    /\ wellness_score_percent = Zero
    /\ detailed_analysis_html = <<>>
    /\ jd_provided = FALSE
    /\ ats_score = 0
    /\ ats_analysis_html = <<>>
    /\ ats_result = [score |-> 0, analysis |-> <<>>]
    /\ response_text = <<>>
    /\ response = "none"
    /\ error = ""

NextParse ==
    \/ ParseWellnessScore
    \/ HandleATS
    \/ RenderResult

SpecParse == InitParse /\ [][NextParse]_vars

\* calculate_ats_score taken by itself, as a function of the module's model
\* handle and of what the provider does with the prompt.
AtsAlphabet ==
    {"ATS Score:", "8", "/100", "**", "Analysis:", "analysis:", " ", "x",
     "Error:", "All available API keys"}

AtsOutcomes ==
    {Returned(t) : t \in SeqsUpTo(AtsAlphabet, MaxAtsLen)}
        \cup {Raised(e) : e \in ExcMsgs}
        \cup {WellFormedAts, OverRangeAts}

InitAts ==
    /\ Configured
    /\ pc = "ats_call"
    /\ content_type = "application/pdf"
    /\ upload_text = <<"x">>
    /\ job_description = <<"x">>
    /\ ats_reply \in (IF ats_model = "None" THEN {NoCall} ELSE AtsOutcomes)
    /\ response = "none"
    /\ error = ""
    /\ Fresh

\* simple_ats.py:20-77   one call of calculate_ats_score
CalculateAtsScore ==
    /\ pc = "ats_call"
    /\ AwaitCalculateAtsScore
    /\ pc' = "ats_returned"
    /\ UNCHANGED <<config, upload, texts, wellness, jd_provided, ats_score,
                   ats_analysis_html, outcome>>

SpecAts == InitAts /\ [][CalculateAtsScore]_vars


\* --------------------------------------------------------------- claims
Range(q) == {q[i] : i \in 1..Len(q)}

\* empty or whitespace-only
Blank(t) == \A i \in 1..Len(t) : t[i] \in {" ", "\n"}

\* the request passed both input gates
GatesPassed == content_type = "application/pdf" /\ ~Blank(resume_text)

\* the AI steps a request that passed the gates is documented to run, in order
DocumentedCalls ==
    <<"get_summary", "get_analysis", "get_wellness_score">>
        \o (IF Blank(job_description) THEN <<>> ELSE <<"calculate_ats_score">>)

IsPrefix(p, q) == Len(p) <= Len(q) /\ SubSeq(q, 1, Len(p)) = p

\* C1: a request stopped by an input gate (content type other than
\* application/pdf, or an empty or whitespace-only transcript) ends on the
\* upload page with the gate's error message, and no AI function is entered
\* for it: whenever an AI function has been entered, both gates were passed.
C1_GatesBeforeAnyAICall ==
    /\ calls # <<>> => GatesPassed
    /\ (pc = "done" /\ content_type # "application/pdf") =>
          /\ response = "upload.html"
          /\ error = "Invalid file type. Please upload a PDF."
          /\ calls = <<>>
    /\ (pc \notin {"idle", "validate", "extract"}
            /\ content_type = "application/pdf" /\ Blank(resume_text)) =>
          /\ pc = "done"
          /\ response = "upload.html"
          /\ error = "Could not find any text to analyze. Please ensure your PDF is text-based and not an image or a scan."
          /\ calls = <<>>

\* C1 witness: a PDF whose transcript is whitespace-only was rejected
C1_Witness ==
    /\ pc = "done"
    /\ content_type = "application/pdf"
    /\ resume_text = <<" ">>
    /\ response = "upload.html"
    /\ calls = <<>>

\* C2: every request that passed both gates ends by rendering result.html,
\* never by an exception leaving the handler.
C2_GatedRequestRendersResult ==
    (pc = "done" /\ GatesPassed) => (response = "result.html" /\ error = "")

\* C3: with a blank job description the request ends on the results page with
\* jd_provided false, ats_score 0, an empty ats_analysis_html and no call of
\* calculate_ats_score; the scorer is entered only for a non-blank job
\* description, and then once.
C3_BlankJobDescriptionSkipsAts ==
    /\ (pc = "done" /\ GatesPassed /\ Blank(job_description)) =>
          /\ response = "result.html"
          /\ jd_provided = FALSE
          /\ ats_score = 0
          /\ ats_analysis_html = <<>>
          /\ "calculate_ats_score" \notin Range(calls)
    /\ "calculate_ats_score" \in Range(calls) =>
          /\ ~Blank(job_description)
          /\ Cardinality({i \in 1..Len(calls) : calls[i] = "calculate_ats_score"}) = 1

\* C10: the AI steps of a request run one after the other in the order
\* summary, analysis, wellness score, ATS scoring (the last only with a job
\* description), each at most once, and a request that passed the gates has
\* run all of them when it ends, on the results page.
C10_StepsRunInOrder ==
    /\ IsPrefix(calls, DocumentedCalls)
    /\ (pc = "done" /\ GatesPassed) => calls = DocumentedCalls
    /\ response = "result.html" => calls = DocumentedCalls

\* the latest AI function made its provider call and that call failed
ProviderFailed == calls # <<>> /\ attempts > 0 /\ provider.raises

\* C5 as claimed: a prompt whose every key failed is reported by a string
\* that contains "All available API keys" or starts with "Error:".
C5_FailureCarriesMarker ==
    (calls = <<"get_summary">> /\ ProviderFailed) =>
        (Contains(summary, "All available API keys") \/ summary[1] = "Error:")

\* C5 amended: get_summary makes at most one provider call, with the one key
\* read from GOOGLE_API_KEY.  Without a key it makes no call and returns the
\* "Error: Gemini model is not configured..." text; when its one call raises
\* it returns "An error occurred while generating the summary: " followed by
\* the exception text, with no retry; otherwise it returns the provider's text.
C5_SingleKeySingleAttempt ==
    calls = <<"get_summary">> =>
        /\ attempts <= 1
        /\ api_key \in {"unset", ""} =>
              /\ attempts = 0
              /\ summary = <<"Error:", " Gemini model is not configured. Please check your API key.">>
        /\ api_key = "key" =>
              /\ attempts = 1
              /\ provider.raises =>
                    /\ summary = <<"An error occurred while generating the summary: ">> \o provider.text
                    /\ summary[1] # "Error:"
              /\ ~provider.raises => summary = provider.text

\* C5 witness: the one provider call of get_summary failed
C5_Witness ==
    /\ pc = "analysis"
    /\ calls = <<"get_summary">>
    /\ attempts = 1
    /\ provider.raises


\* the parsing block main.py:75-98 has run on wellness_score_raw
WellnessParsed == pc \in {"ats", "render"} \/ (pc = "done" /\ response = "result.html")

\* C6: parsing is total: whatever the raw wellness text, the request that
\* reached the parsing block ends on the results page, never with an
\* exception, and without a usable "Score:" value the score is the default 0.0
\* and without an explanation or note the text is "Could not parse score.".
C6_ParsingNeverRaises ==
    /\ response # "exception"
    /\ pc = "done" => response = "result.html"
    /\ (WellnessParsed /\ ~Contains(wellness_score_raw, "Score:")) =>
          wellness_score_value = Zero
    /\ (WellnessParsed /\ explanation_parts = <<>>) =>
          wellness_score_explanation = <<"Could not parse score.">>

\* C8: on a rendered results page the wellness score is within 0..10, its
\* percentage within 0..100 and the ATS score within 0..100.
C8_ScoresWithinRange ==
    response = "result.html" =>
        /\ InRange(wellness_score_value, 0, 10)
        /\ InRange(wellness_score_percent, 0, 100)
        /\ 0 <= ats_score /\ ats_score <= 100

\* C9: after parsing, the percent is ten times the score, the score is 0.0
\* when the raw text has no "Score:", and when the raw text has both an
\* "Explanation:" and a "Note:" the explanation is two segments: the
\* explanation text, cut before the note marker (so it holds no "Note:"), and
\* after it the one "Note: ..." segment.
C9_ExplanationCutBeforeNote ==
    WellnessParsed =>
        /\ NumEq(wellness_score_percent, TimesTen(wellness_score_value))
        /\ ~Contains(wellness_score_raw, "Score:") => wellness_score_value = Zero
        /\ (Contains(wellness_score_raw, "Explanation:")
                /\ Contains(wellness_score_raw, "Note:")) =>
              /\ Len(explanation_parts) = 2
              /\ ~Contains(explanation_parts[1], "Note:")
              /\ explanation_parts[2][1] = "Note:"
              /\ wellness_score_explanation =
                     explanation_parts[1] \o <<"\n">> \o explanation_parts[2]

\* calculate_ats_score has returned, having obtained a response text
AtsTextObtained ==
    pc = "ats_returned" /\ ats_model # "None" /\ ~ats_reply.raises

HasErrorMarker(t) == Contains(t, "Error:") \/ Contains(t, "All available API keys")

\* i starts an "ATS Score: N/100" whose digits are s[j..k-1]
ScorePatternAt(s, i, j, k) ==
    /\ s[i] \in {"ATS Score:", "ats score:"}
    /\ i < j /\ j < k /\ k <= Len(s)
    /\ \A n \in (i + 1)..(j - 1) : s[n] \in {" ", "\n"}
    /\ \A n \in j..(k - 1) : s[n] \in Digits
    /\ s[k] = "/100"

HasScorePattern(s) ==
    \E i \in 1..Len(s), j \in 1..Len(s), k \in 1..Len(s) : ScorePatternAt(s, i, j, k)

\* the score is the N of the first "ATS Score: N/100", 0 if there is none
ScoreIsFirstPattern(s, score) ==
    /\ ~HasScorePattern(s) => score = 0
    /\ \A i \in 1..Len(s), j \in 1..Len(s), k \in 1..Len(s) :
          (/\ ScorePatternAt(s, i, j, k)
           /\ ~\E i2 \in 1..(i - 1), j2 \in 1..Len(s), k2 \in 1..Len(s) :
                  ScorePatternAt(s, i2, j2, k2))
              => score = DigitsValue(SubSeq(s, j, k - 1))

\* positions of the word "analysis:" in any case
AnalysisWords(s) == {i \in 1..Len(s) : s[i] \in {"Analysis:", "analysis:"}}

\* positions where the bold heading "**Analysis:**" starts, in any case
BoldHeadings(s) ==
    {i \in 1..Len(s) : i + 2 <= Len(s) /\ s[i] = "**" /\ i + 1 \in AnalysisWords(s)
                        /\ s[i + 2] = "**"}

\* C4 as claimed: a response text that contains "Error:" or "All available
\* API keys" gives score 0 and is itself returned as the analysis.
C4_ErrorTextForcesZero ==
    (AtsTextObtained /\ HasErrorMarker(response_text)) =>
        (ats_result.score = 0 /\ ats_result.analysis = response_text)

\* C4 amended: calculate_ats_score returns score 0 with an error text as the
\* analysis when it obtained no response text: the model is not configured
\* ("Error: Gemini model is not configured.") or the provider call raised
\* ("An error occurred during ATS analysis: " and the exception text).  A
\* response text that was obtained is parsed whatever it contains: "Error:"
\* and "All available API keys" in it change nothing, and its first
\* "ATS Score: N/100" gives the score N.
C4_ErrorOnlyWithoutResponseText ==
    pc = "ats_returned" =>
        /\ api_key \in {"unset", ""} =>
              ats_result = [score |-> 0,
                            analysis |-> <<"Error:", " Gemini model is not configured.">>]
        /\ (api_key = "key" /\ ats_reply.raises) =>
              ats_result = [score |-> 0,
                            analysis |-> <<"An error occurred during ATS analysis: ">>
                                             \o ats_reply.text]
        /\ (AtsTextObtained /\ HasErrorMarker(response_text)) =>
              /\ response_text = ats_reply.text
              /\ ScoreIsFirstPattern(response_text, ats_result.score)
              /\ BoldHeadings(response_text) = {} =>
                    ats_result.analysis = <<"Could not parse analysis.">>

\* C4 witness: a response text with an error marker and a score pattern was
\* parsed to a score other than 0
C4_Witness ==
    /\ AtsTextObtained
    /\ Contains(response_text, "Error:")
    /\ HasScorePattern(response_text)
    /\ ats_result.score = 8

\* the text after the first "analysis:" word (after the closing ** when the
\* word is a bold heading), trimmed
AfterFirstAnalysisWord(s) ==
    LET w == Min(AnalysisWords(s))
    IN  IF w - 1 \in BoldHeadings(s) THEN strip(From(s, w + 2)) ELSE strip(From(s, w + 1))

=============================================================================
